---- MODULE Spec2Model ----
(***************************************************************************)
(* Model of shinokiri/chat-cli.                                            *)
(*                                                                         *)
(*   SpecStream  the turn loop of main() driving stream_with_retry with    *)
(*               the make_stream factory against a remote service          *)
(*   SpecUpload  resolve_attachment_item / upload_lossless with the        *)
(*               process-wide upload cache against the file service        *)
(*   SpecParse   parse_turn_input applied to one raw input                 *)
(***************************************************************************)
EXTENDS Integers, Sequences, FiniteSets, TLC

\* ------------------------------------------------------------------------
\* Bounds of the model
\* ------------------------------------------------------------------------
\* largest max_retries a run is started with (the code's default is 15)
MaxRetriesBound == 3
\* number of events of one response (sequence numbers 0 .. NumEvents-1)
NumEvents == 3
\* number of turns of the session that reach the stream driver
MaxTurns == 2
\* number of attachments resolved in one session
MaxResolutions == 3
\* number of pieces (a line body and a line end) a raw input is made of
MaxPieces == 2
\* loop rounds of main() in SpecMain
MaxRounds == 2
\* the max_retries SpecMain runs stream_with_retry with, in place of the default
MainRetries == 2

\* ------------------------------------------------------------------------
\* State
\* ------------------------------------------------------------------------
VARIABLES
    pc,               \* position of main(): prompt, factory, streaming, sleeping, crashed, exited
    turn,             \* number of turns that reached stream_with_retry
    response_id,      \* main(): response_id (None until response.created is consumed)
    sequence_number,  \* main(): sequence_number
    max_retries,      \* stream_with_retry: max_retries
    attempt,          \* stream_with_retry: loop variable attempt
    stream,           \* the open stream handle: [rid, next], or NoStream
    raised,           \* the exception that left stream_with_retry, or NoError
    driver,           \* idle, running, returned, raised, abandoned
    n_responses,      \* service: number of responses created so far
    received,         \* events the consumer processed in this turn, in order
    requests,         \* requests make_stream issued in this turn, in order
    calls,            \* invocations of stream_factory in this run of the driver
    slept,            \* the delays passed to sleep() in this run, in order
    failures,         \* number of exceptions the factory / the stream raised in this run
    last_failure,     \* the latest such exception: [attempt, at, error]
    cancels,          \* response ids passed to client.responses.cancel
    last_cancel,      \* what the latest on_cancel() did: none, noop, sent, failed
    n_open,           \* stream handles entered (with ... as stream) and not yet exited
    reported,         \* the message main() printed last when it left a turn
    upload_cache,     \* main(): upload_cache, (sha256, size, mime_type) -> file id
    upload_calls,     \* service: client.files.create calls, per cache key
    download_calls,   \* service: number of client.files.content calls
    failed_uploads,   \* per cache key: resolutions that uploaded and stored no entry
    n_files,          \* service: number of file ids handed out
    n_resolutions,    \* attachments resolved so far
    last_resolution,  \* what the latest resolution was given and what it did
    raw_input,        \* main(): raw_input, the text session.prompt returned
    parsed_turn,      \* main(): parsed_turn, or NotParsed
    todo,             \* build_input_payload: the parts still to go through
    content,          \* build_input_payload: content, the fragments so far
    turn_resolutions, \* attachments resolved in the current loop round
    round,            \* loop rounds of main() in which session.prompt returned an input
    prepared_input    \* main(): prepared_input, or NoInput

streamVars == <<pc, turn, response_id, sequence_number, max_retries, attempt,
                stream, raised, driver, n_responses, received, requests,
                calls, slept, failures, last_failure, cancels, last_cancel,
                n_open, reported>>

uploadVars == <<upload_cache, upload_calls, download_calls, failed_uploads,
                n_files, n_resolutions, last_resolution>>

parseVars == <<raw_input, parsed_turn>>

payloadVars == <<todo, content, turn_resolutions, round, prepared_input>>

vars == <<streamVars, uploadVars, parseVars, payloadVars>>

\* ------------------------------------------------------------------------
\* Values
\* ------------------------------------------------------------------------
None == 0
NoStream == [rid |-> 0, next |-> 0]
NoError == "none"
NoFailure == [attempt |-> -1, at |-> "none", error |-> NoError]
NoFailures == [at \in {"factory", "stream"} |-> 0]

\* default of the sleep_seconds parameter (1.0)
sleep_seconds == 1

\* the three exception classes of RETRY_EXCEPTIONS, and two that are not
\* network errors (an API status error, a malformed event)
RETRY_EXCEPTIONS == {"httpx.TransportError", "APIConnectionError", "APITimeoutError"}
Errors == RETRY_EXCEPTIONS \cup {"APIStatusError", "ValueError"}

Min(a, b) == IF a <= b THEN a ELSE b

RECURSIVE Pow2(_)
Pow2(n) == IF n = 0 THEN 1 ELSE 2 * Pow2(n - 1)

\* a delay without the ceiling
BackoffDelayUncapped(a) == sleep_seconds * Pow2(a)

\* sleep_seconds * min(max_retries, 2 ** attempt)
BackoffDelay(a) == sleep_seconds * Min(max_retries, Pow2(a))

\* a handler that catches every exception
IsRetryExceptionBare(e) == TRUE

\* except RETRY_EXCEPTIONS
IsRetryException(e) == e \in RETRY_EXCEPTIONS

\* a last-attempt test that is off by one
IsLastAttemptEarly == attempt >= max_retries - 2

\* a last-attempt test that never gives up
IsLastAttemptNever == FALSE

\* if attempt == max_retries - 1: raise
IsLastAttempt == attempt = max_retries - 1

\* the service's event stream: the first event announces the response
EventType(seq) ==
    IF seq = 0 THEN "response.created"
    ELSE IF seq = NumEvents - 1 THEN "response.completed"
    ELSE "response.output_text.delta"

Event(rid, seq) == [rid |-> rid, sequence_number |-> seq, type |-> EventType(seq)]

\* a resume that names the event last consumed instead of the one before the
\* next (off by one: the last event is replayed)
StartingAfterStale == sequence_number - 1

\* make_stream: starting_after=sequence_number
StartingAfter == sequence_number

\* make_stream: if response_id is None -> create, else resume
MakeStreamRequest ==
    IF response_id = None
    THEN [kind |-> "create", response_id |-> None, starting_after |-> -1,
          n_received |-> Len(received)]
    ELSE [kind |-> "resume", response_id |-> response_id,
          starting_after |-> StartingAfter, n_received |-> Len(received)]

\* the stream the service opens for a request: a new response from its first
\* event, or the recorded response from the event after starting_after
ServiceStream(req) ==
    IF req.kind = "create"
    THEN [rid |-> n_responses + 1, next |-> 0]
    ELSE [rid |-> req.response_id, next |-> req.starting_after + 1]

\* an on_cancel that never sends anything
OnCancelNever == cancels

\* an on_cancel that cancels the response created last, whatever the turn
OnCancelStale == IF n_responses # 0 THEN Append(cancels, n_responses) ELSE cancels

\* on_cancel: cancel the response whose id is known, swallow any failure
OnCancel == IF response_id # None THEN Append(cancels, response_id) ELSE cancels

\* what a call of on_cancel can come to: nothing sent, or a cancel request
\* that the service accepts or that raises (except Exception: pass)
CancelOutcomes == IF response_id # None THEN {"sent", "failed"} ELSE {"noop"}

\* the messages main() prints when it leaves a turn
NothingReported == "none"
CANCELLED == "Cancelled (Ctrl-C)"
BYE == "Bye (Ctrl-D)"
ATTACHMENT_ERROR == "Attachment error"
SLASH_HELP == "Commands"

\* a handler that sleeps with the stream handle still open
ExitStreamNever == n_open

\* with stream_factory() as stream: leaving the block releases the handle
ExitStream == n_open - 1

\* ------------------------------------------------------------------------
\* Attachments: values and pure functions
\* ------------------------------------------------------------------------
\* Text is a sequence of pieces (strings); a file's content is a sequence of
\* blocks, one block being what one file_obj.read(1024 * 1024) returns.

NoBytes == -1
NoKey == <<>>
NoExc == [class |-> "none", message |-> <<>>]
NoFragment == [type |-> "none"]
NoRemote == <<>>

\* needle in text
Contains(text, needle) ==
    \E i \in 0..(Len(text) - Len(needle)) : SubSeq(text, i + 1, i + Len(needle)) = needle

\* text.startswith(prefix)
StartsWith(text, prefix) ==
    Len(text) >= Len(prefix) /\ SubSeq(text, 1, Len(prefix)) = prefix

PRIMARY_UPLOAD_PURPOSE == "user_data"

\* the phrase is_content_download_forbidden looks for
FORBIDDEN_PHRASE == <<"Not", "allowed", "to", "download", "files", "of", "purpose">>

\* the file system: what a source resolves to. name is path.name in pieces,
\* the extension last.
FileSystem == {
    [path |-> "a.png", name |-> <<"a", ".png">>, content |-> <<1, 2>>, status |-> "ok"],
    [path |-> "a.jpg", name |-> <<"a", ".jpg">>, content |-> <<1, 2>>, status |-> "ok"],
    [path |-> "Not allowed to download files of purpose.png",
     name |-> FORBIDDEN_PHRASE \o <<".png">>, content |-> <<1, 2>>, status |-> "ok"],
    [path |-> "notes.txt", name |-> <<"notes", ".txt">>, content |-> <<1>>, status |-> "ok"],
    [path |-> "gone.png", name |-> <<"gone", ".png">>, content |-> <<>>, status |-> "missing"],
    [path |-> "dir", name |-> <<"dir">>, content |-> <<>>, status |-> "dir"],
    [path |-> "secret.bin", name |-> <<"secret", ".bin">>, content |-> <<2>>, status |-> "unreadable"] }

\* the sources an attachment can name: a local path, or a URL (which as a path
\* names no file)
NoFile(path) == [path |-> path, name |-> <<path>>, content |-> <<>>, status |-> "missing"]

Sources ==
    { [scheme |-> "", netloc |-> "", file |-> f] : f \in FileSystem }
    \cup { [scheme |-> "https", netloc |-> "host", file |-> NoFile("https://host/x.png")],
           [scheme |-> "http", netloc |-> "", file |-> NoFile("http:///x.png")],
           [scheme |-> "ftp", netloc |-> "host", file |-> NoFile("ftp://host/x.png")] }

AttachmentKinds == {"image", "file", "audio"}

\* is_http_url
is_http_url(source) == source.scheme \in {"http", "https"} /\ source.netloc # ""

\* mimetypes.guess_type(path.name)[0] or "application/octet-stream"
guess_mime_type(file) ==
    LET ext == file.name[Len(file.name)] IN
      CASE ext = ".png" -> <<"image/", "png">>
        [] ext = ".jpg" -> <<"image/", "jpeg">>
        [] ext = ".txt" -> <<"text/", "plain">>
        [] OTHER -> <<"application/", "octet-stream">>

\* hashlib.sha256().hexdigest() of the bytes fed to the hasher: equal digests
\* for equal bytes only
Sha256Hex(fed) == <<"sha256", fed>>

RECURSIVE HashChunks(_, _, _)
\* for chunk in ...: hasher.update(chunk); total_bytes += len(chunk)
\* (an empty chunk changes neither)
HashChunks(chunks, fed, total_bytes) ==
    IF chunks = <<>> THEN <<Sha256Hex(fed), total_bytes>>
    ELSE HashChunks(Tail(chunks), fed \o Head(chunks), total_bytes + Len(Head(chunks)))

\* iter(lambda: file_obj.read(1024 * 1024), b""): one block per read
ReadChunks(blocks) == [i \in 1..Len(blocks) |-> <<blocks[i]>>]

\* compute_sha256_and_size
compute_sha256_and_size(file) == HashChunks(ReadChunks(file.content), <<>>, 0)

\* compute_stream_sha256_and_size
compute_stream_sha256_and_size(chunks) == HashChunks(chunks, <<>>, 0)

\* the exceptions of this part; KeyboardInterrupt is no Exception
ValueError(message) == [class |-> "ValueError", message |-> message]
ConnectionError == [class |-> "APIConnectionError", message |-> <<"Connection error.">>]
ForbiddenError ==
    [class |-> "BadRequestError",
     message |-> <<"Error code: 400 -">> \o FORBIDDEN_PHRASE \o <<":", PRIMARY_UPLOAD_PURPOSE>>]
KeyboardInterrupt == [class |-> "KeyboardInterrupt", message |-> <<>>]

\* except Exception
IsException(exc) == exc.class # "KeyboardInterrupt"

\* is_content_download_forbidden
is_content_download_forbidden(exc) == Contains(exc.message, FORBIDDEN_PHRASE)

\* what client.files.create can answer: an exception, or a file object with a
\* new id and a byte count (possibly none, possibly wrong)
ReportedBytes == {NoBytes, 1, 2}
UploadReplies ==
    { [exc |-> e, bytes |-> NoBytes] : e \in {ConnectionError, KeyboardInterrupt} }
    \cup { [exc |-> NoExc, bytes |-> b] : b \in ReportedBytes }

\* what client.files.content can answer: an exception, or the stored bytes as
\* a stream of chunks, some empty
RemoteStreams == { << <<1>>, <<>>, <<2>> >>, << <<2, 1>> >>, << <<1>> >> }
ReadbackReplies ==
    { [exc |-> e, chunks |-> <<>>] : e \in {ForbiddenError, ConnectionError, KeyboardInterrupt} }
    \cup { [exc |-> NoExc, chunks |-> c] : c \in RemoteStreams }

\* verify_uploaded_content: the exception it raises, or NoExc
verify_uploaded_content(reply, filename, expected_sha256, expected_size) ==
    IF reply.exc # NoExc THEN reply.exc
    ELSE LET remote == compute_stream_sha256_and_size(reply.chunks) IN
           IF remote[1] # expected_sha256 \/ remote[2] # expected_size
           THEN ValueError(<<"Integrity check failed for">> \o filename
                           \o <<"(local sha256=", ToString(expected_sha256),
                                "remote sha256=", ToString(remote[1]),
                                "local size=", ToString(expected_size),
                                "remote size=", ToString(remote[2]), ")">>)
           ELSE NoExc

\* a cache key that leaves the MIME type out
CacheKeyNoMime(local_sha256, local_size, mime_type) == <<local_sha256, local_size, <<>>>>

\* cache_key = (local_sha256, local_size, mime_type)
CacheKey(local_sha256, local_size, mime_type) == <<local_sha256, local_size, mime_type>>

\* a lookup that never finds anything
CachedFileIdMiss(cache_key) == None

\* upload_cache.get(cache_key)
CachedFileId(cache_key) ==
    IF cache_key \in DOMAIN upload_cache THEN upload_cache[cache_key] ELSE None

\* a size test that lets a missing byte count pass
SizeMismatchLax(uploaded_bytes, local_size) ==
    uploaded_bytes # NoBytes /\ uploaded_bytes # local_size

\* getattr(uploaded, "bytes", None) != local_size
SizeMismatch(uploaded_bytes, local_size) == uploaded_bytes # local_size

\* the keys local content can have
AllKeys ==
    { CacheKey(compute_sha256_and_size(f)[1], compute_sha256_and_size(f)[2], guess_mime_type(f)) :
        f \in {g \in FileSystem : g.status = "ok"} }

\* upload_lossless: what it does for one file, given the service's replies.
\* The result names the exception raised (or NoExc and the file id returned),
\* the cache afterwards, and which service calls were made.
upload_lossless(file, filename, mime_type, up, rb) ==
    LET local == compute_sha256_and_size(file)
        local_sha256 == local[1]
        local_size == local[2]
        cache_key == CacheKey(local_sha256, local_size, mime_type)
        cached_file_id == CachedFileId(cache_key)
        new_id == n_files + 1
        base == [key |-> cache_key, exc |-> NoExc, file_id |-> None,
                 cache |-> upload_cache, uploaded |-> FALSE, read_back |-> FALSE,
                 reported_bytes |-> NoBytes, remote |-> NoRemote]
    IN  IF cached_file_id # None
        THEN [base EXCEPT !.file_id = cached_file_id]
        ELSE IF up.exc # NoExc
        THEN [base EXCEPT !.uploaded = TRUE, !.exc = up.exc]
        ELSE IF SizeMismatch(up.bytes, local_size)
        THEN [base EXCEPT !.uploaded = TRUE, !.reported_bytes = up.bytes,
                          !.exc = ValueError(<<"Upload size mismatch for">> \o filename
                                     \o <<"(local size=", ToString(local_size),
                                          "uploaded size=", ToString(up.bytes), ")">>)]
        ELSE LET exc == verify_uploaded_content(rb, filename, local_sha256, local_size)
                 done == [base EXCEPT !.uploaded = TRUE, !.reported_bytes = up.bytes,
                                      !.read_back = TRUE,
                                      !.remote = IF rb.exc = NoExc
                                                 THEN compute_stream_sha256_and_size(rb.chunks)
                                                 ELSE NoRemote]
             IN  IF exc # NoExc /\ ~(IsException(exc) /\ is_content_download_forbidden(exc))
                 THEN [done EXCEPT !.exc = exc]
                 ELSE [done EXCEPT !.file_id = new_id,
                                   !.cache = [k \in DOMAIN upload_cache \cup {cache_key} |->
                                                IF k = cache_key THEN new_id
                                                ELSE upload_cache[k]]]

\* ensure_readable_file: the exception it raises, or NoExc
ensure_readable_file(file) ==
    CASE file.status = "missing" -> ValueError(<<"File not found:", file.path>>)
      [] file.status = "dir" -> ValueError(<<"Not a file:", file.path>>)
      [] file.status = "unreadable" -> ValueError(<<"File is not readable:", file.path>>)
      [] OTHER -> NoExc

\* resolve_attachment_item: the fragment it returns or the exception it
\* raises, with what upload_lossless did on the way
resolve_attachment_item(kind, source, up, rb) ==
    LET file == source.file
        filename == file.name
        mime_type == guess_mime_type(file)
        none == [key |-> NoKey, exc |-> NoExc, file_id |-> None,
                 cache |-> upload_cache, uploaded |-> FALSE, read_back |-> FALSE,
                 reported_bytes |-> NoBytes, remote |-> NoRemote]
        fail(exc) == [upload |-> [none EXCEPT !.exc = exc], fragment |-> NoFragment]
        lossless == upload_lossless(file, filename, mime_type, up, rb)
    IN  CASE kind = "image" /\ is_http_url(source) ->
               [upload |-> none,
                fragment |-> [type |-> "input_image", image_url |-> source.file.path,
                              detail |-> "high"]]
          [] kind \in {"image", "file"} /\ ~(kind = "image" /\ is_http_url(source)) ->
               IF ensure_readable_file(file) # NoExc
               THEN fail(ensure_readable_file(file))
               ELSE IF kind = "image" /\ ~StartsWith(mime_type, <<"image/">>)
               THEN fail(ValueError(<<"/image requires an image file, got">> \o mime_type
                                    \o <<file.path>>))
               ELSE [upload |-> lossless,
                     fragment |->
                       IF lossless.exc # NoExc THEN NoFragment
                       ELSE IF kind = "image"
                       THEN [type |-> "input_image", file_id |-> lossless.file_id,
                             detail |-> "high"]
                       ELSE [type |-> "input_file", file_id |-> lossless.file_id,
                             filename |-> filename]]
          [] OTHER -> fail(ValueError(<<"Unsupported attachment kind:", kind>>))

\* the attachment part of the state when no attachment was resolved yet
NoResolution ==
    [kind |-> "none", path |-> "", filename |-> <<>>, sha256 |-> <<>>, size |-> 0,
     mime_type |-> <<>>, key |-> NoKey, exc |-> NoExc, file_id |-> None,
     fragment |-> NoFragment, uploaded |-> FALSE, read_back |-> FALSE,
     upload_exc |-> NoExc, reported_bytes |-> NoBytes,
     readback_exc |-> NoExc, remote |-> NoRemote]

UploadIdle ==
    /\ upload_cache = <<>>
    /\ upload_calls = [k \in AllKeys |-> 0]
    /\ download_calls = 0
    /\ failed_uploads = [k \in AllKeys |-> 0]
    /\ n_files = 0
    /\ n_resolutions = 0
    /\ last_resolution = NoResolution

\* ------------------------------------------------------------------------
\* Turn parser: values and pure functions
\* ------------------------------------------------------------------------
\* A string is a sequence of characters.

\* the raw inputs of the model: up to MaxPieces of these, one after the other
\* (a piece without a line end runs into the next one)
Pieces == {
    <<"h", "e", "l", "l", "o", "\n">>,
    <<"w", "o", "r", "l", "d">>,
    <<" ", "\n">>,
    <<"\r", "\n">>,
    <<"\t", " ", "a", "/", "b", " ", "\f">>,
    <<"/", "h", "e", "l", "p", "\n">>,
    <<" ", "/", "H", "e", "l", "p", " ">>,
    <<" ", " ", "/", "/", "i", "m", "a", "g", "e", " ", "x", ".", "p", "n", "g", "\n">>,
    <<"/", "/", "h", "e", "l", "p", "\n">>,
    <<"h", "e", "l", "l", "o", "\n", "/", "f", "i", "l", "e", " ", "n", "o", "t", "e", "s", ".", "t", "x", "t", "\n", "w", "o", "r", "l", "d">>,
    <<"/", "i", "m", "a", "g", "e", " ", "x", ".", "p", "n", "g", "\n">>,
    <<"/", "f", "i", "l", "e", " ", "'", "a", " ", "b", "'", " ", "c", "\n">>,
    <<"/", "i", "m", "a", "g", "e", "\n">>,
    <<"/", "i", "m", "a", "g", "e", " ", "'", "'", "\n">>,
    <<"/", "f", "i", "l", "e", " ", "'", "a", "\n">>,
    <<"/", "x", " ", "y", "\n">>,
    <<"/", "f", "i", "l", "e", " ", "n", "o", "t", "e", "s", ".", "t", "x", "t", "\n">>,
    <<"/", "f", "i", "l", "e", " ", "\"", "a", "\\", "\"", "b", "\"", " ", "c", "\\", " ", "d", "\n">> }

RECURSIVE InputsOf(_)
InputsOf(n) ==
    IF n = 0 THEN {<<>>}
    ELSE LET shorter == InputsOf(n - 1) IN
           shorter \cup {s \o p : s \in shorter, p \in Pieces}

RawInputs == InputsOf(MaxPieces)

\* the line boundaries of str.splitlines among the model's characters
LineBreaks == {"\n", "\r", "\f"}

\* the characters str.strip and str.lstrip remove
PyWhitespace == {" ", "\t", "\n", "\r", "\f"}

\* shlex.whitespace, shlex.quotes, shlex.escape, shlex.escapedquotes
ShlexWhitespace == {" ", "\t", "\r", "\n"}
ShlexQuotes == {"'", "\""}
ShlexEscape == {"\\"}
ShlexEscapedQuotes == {"\""}

\* the first position from i on where s has a character of stops, Len(s) + 1 if
\* there is none: the characters before it are read in one step
FirstAt(s, i, stops) ==
    LET hits == {j \in i..Len(s) : s[j] \in stops} IN
      IF hits = {} THEN Len(s) + 1 ELSE CHOOSE j \in hits : \A k \in hits : j <= k

RECURSIVE SplitLinesFrom(_, _, _)
\* the lines of s from position i on, cur being the line begun; "\r\n" is one
\* line end, and every line keeps its end
SplitLinesFrom(s, i, cur) ==
    IF i > Len(s) THEN (IF cur = <<>> THEN <<>> ELSE <<cur>>)
    ELSE IF s[i] = "\r" /\ i < Len(s) /\ s[i + 1] = "\n"
    THEN <<cur \o <<"\r", "\n">>>> \o SplitLinesFrom(s, i + 2, <<>>)
    ELSE IF s[i] \in LineBreaks
    THEN <<Append(cur, s[i])>> \o SplitLinesFrom(s, i + 1, <<>>)
    ELSE LET j == FirstAt(s, i, LineBreaks) IN
           SplitLinesFrom(s, j, cur \o SubSeq(s, i, j - 1))

RECURSIVE DropLineEnd(_)
DropLineEnd(line) ==
    IF line # <<>> /\ line[Len(line)] \in LineBreaks
    THEN DropLineEnd(SubSeq(line, 1, Len(line) - 1))
    ELSE line

\* raw_input.splitlines() without keepends
splitlines_dropping_ends(s) ==
    LET lines == SplitLinesFrom(s, 1, <<>>) IN
      [i \in 1..Len(lines) |-> DropLineEnd(lines[i])]

\* raw_input.splitlines(keepends=True)
splitlines(s) == SplitLinesFrom(s, 1, <<>>)

RECURSIVE lstrip(_)
\* str.lstrip()
lstrip(s) == IF s # <<>> /\ s[1] \in PyWhitespace THEN lstrip(Tail(s)) ELSE s

RECURSIVE rstrip(_)
\* str.rstrip()
rstrip(s) ==
    IF s # <<>> /\ s[Len(s)] \in PyWhitespace THEN rstrip(SubSeq(s, 1, Len(s) - 1)) ELSE s

\* str.strip()
strip(s) == rstrip(lstrip(s))

\* str.lower() of one character
LowerChar(c) ==
    CASE c = "H" -> "h"
      [] c = "I" -> "i"
      [] c = "F" -> "f"
      [] OTHER -> c

\* str.lower()
lower(s) == [i \in 1..Len(s) |-> LowerChar(s[i])]

RECURSIVE JoinLines(_)
\* "".join(text_lines)
JoinLines(lines) == IF lines = <<>> THEN <<>> ELSE Head(lines) \o JoinLines(Tail(lines))

RECURSIVE JoinSpace(_)
\* " ".join(tokens)
JoinSpace(tokens) ==
    IF tokens = <<>> THEN <<>>
    ELSE IF Len(tokens) = 1 THEN tokens[1]
    ELSE tokens[1] \o <<" ">> \o JoinSpace(Tail(tokens))

ShlexError == [ok |-> FALSE, tokens |-> <<>>]

RECURSIVE ShlexFrom(_, _, _, _, _, _)
\* shlex.shlex(s, posix=True) with whitespace_split and no commenters, read to
\* its end: read_token's state machine. state is "space" (between tokens),
\* "word" (in a token), a quote character (in a quoted part) or "\\" (after
\* an escape, escapedstate being the state to go back to). The characters of a
\* token up to the next one that changes the state are read in one step.
ShlexFrom(s, i, state, escapedstate, token, tokens) ==
    IF i > Len(s)
    THEN CASE state = "space" -> [ok |-> TRUE, tokens |-> tokens]
           [] state = "word" -> [ok |-> TRUE, tokens |-> Append(tokens, token)]
           [] OTHER -> ShlexError  \* No closing quotation / No escaped character
    ELSE LET c == s[i] IN
      CASE state = "space" ->
             IF c \in ShlexWhitespace THEN ShlexFrom(s, i + 1, "space", escapedstate, <<>>, tokens)
             ELSE IF c \in ShlexEscape THEN ShlexFrom(s, i + 1, c, "word", <<>>, tokens)
             ELSE IF c \in ShlexQuotes THEN ShlexFrom(s, i + 1, c, escapedstate, <<>>, tokens)
             ELSE ShlexFrom(s, i + 1, "word", escapedstate, <<c>>, tokens)
        [] state \in ShlexQuotes ->
             IF c = state THEN ShlexFrom(s, i + 1, "word", escapedstate, token, tokens)
             ELSE IF c \in ShlexEscape /\ state \in ShlexEscapedQuotes
             THEN ShlexFrom(s, i + 1, c, state, token, tokens)
             ELSE LET j == FirstAt(s, i, {state} \cup (IF state \in ShlexEscapedQuotes
                                                       THEN ShlexEscape ELSE {}))
                  IN  ShlexFrom(s, j, state, escapedstate, token \o SubSeq(s, i, j - 1), tokens)
        [] state \in ShlexEscape ->
             IF escapedstate \in ShlexQuotes /\ c # state /\ c # escapedstate
             THEN ShlexFrom(s, i + 1, escapedstate, escapedstate, token \o <<state, c>>, tokens)
             ELSE ShlexFrom(s, i + 1, escapedstate, escapedstate, Append(token, c), tokens)
        [] OTHER ->
             IF c \in ShlexWhitespace
             THEN ShlexFrom(s, i + 1, "space", escapedstate, <<>>, Append(tokens, token))
             ELSE IF c \in ShlexQuotes THEN ShlexFrom(s, i + 1, c, escapedstate, token, tokens)
             ELSE IF c \in ShlexEscape THEN ShlexFrom(s, i + 1, c, "word", token, tokens)
             ELSE LET j == FirstAt(s, i, ShlexWhitespace \cup ShlexQuotes \cup ShlexEscape)
                  IN  ShlexFrom(s, j, "word", escapedstate, token \o SubSeq(s, i, j - 1), tokens)

\* shlex.split(stripped): the tokens, or not ok for a ValueError
shlex_split(s) == ShlexFrom(s, 1, "space", "word", <<>>, <<>>)

TextPart(text) == [type |-> "text", kind |-> "", text |-> text]
AttachmentSpec(kind, source) == [type |-> "attachment", kind |-> kind, text |-> source]

\* a flush that appends a text part even when no line is buffered
flush_text_always(parts, text_lines) == Append(parts, TextPart(JoinLines(text_lines)))

\* flush_text: the parts after it (text_lines is cleared by the caller)
flush_text(parts, text_lines) ==
    IF text_lines # <<>> THEN Append(parts, TextPart(JoinLines(text_lines))) ELSE parts

SLASH == <<"/">>
DOUBLE_SLASH == <<"/", "/">>
HELP_COMMAND == <<"/", "h", "e", "l", "p">>
IMAGE_COMMAND == <<"/", "i", "m", "a", "g", "e">>
FILE_COMMAND == <<"/", "f", "i", "l", "e">>

\* an escape line that loses its leading whitespace
UnescapeDroppingIndent(line, lstripped) == SLASH \o SubSeq(lstripped, 3, Len(lstripped))

\* leading_ws + "/" + lstripped[2:]
Unescape(line, lstripped) ==
    LET leading_ws == SubSeq(line, 1, Len(line) - Len(lstripped)) IN
      leading_ws \o SLASH \o SubSeq(lstripped, 3, Len(lstripped))

\* a source test that accepts the empty source
HasSourceLax(tokens, source) == Len(tokens) >= 2

\* len(tokens) >= 2 ... if source
HasSource(tokens, source) == Len(tokens) >= 2 /\ source # <<>>

\* one round of the for loop of parse_turn_input: the parts, the buffered text
\* lines and show_help after the line
ParseLine(line, acc) ==
    LET lstripped == lstrip(line)
        stripped == strip(line)
        keep == [acc EXCEPT !.text_lines = Append(@, line)]
    IN  IF StartsWith(lstripped, DOUBLE_SLASH)
        THEN [acc EXCEPT !.text_lines = Append(@, Unescape(line, lstripped))]
        ELSE IF ~StartsWith(stripped, SLASH) THEN keep
        ELSE LET lexed == shlex_split(stripped) IN
          IF ~lexed.ok THEN keep
          ELSE IF lexed.tokens = <<>> THEN keep
          ELSE LET tokens == lexed.tokens
                   command == lower(tokens[1])
                   source == strip(JoinSpace(Tail(tokens)))
               IN  IF command = HELP_COMMAND THEN [acc EXCEPT !.show_help = TRUE]
                   ELSE IF command \in {IMAGE_COMMAND, FILE_COMMAND}
                           /\ HasSource(tokens, source)
                   THEN [acc EXCEPT
                           !.parts = Append(flush_text(acc.parts, acc.text_lines),
                                            AttachmentSpec(IF command = IMAGE_COMMAND
                                                           THEN "image" ELSE "file", source)),
                           !.text_lines = <<>>]
                   ELSE keep

RECURSIVE ParseLines(_, _)
ParseLines(lines, acc) ==
    IF lines = <<>> THEN acc ELSE ParseLines(Tail(lines), ParseLine(Head(lines), acc))

\* parse_turn_input
parse_turn_input(raw) ==
    LET acc == ParseLines(splitlines(raw),
                          [parts |-> <<>>, text_lines |-> <<>>, show_help |-> FALSE])
    IN  [parsed |-> TRUE,
         parts |-> flush_text(acc.parts, acc.text_lines),
         show_help |-> acc.show_help]

NotParsed == [parsed |-> FALSE, parts |-> <<>>, show_help |-> FALSE]

ParseIdle ==
    /\ raw_input = <<>>
    /\ parsed_turn = NotParsed

\* prepared_input before any payload was built
NoInput == [kind |-> "none"]

PayloadIdle ==
    /\ todo = <<>>
    /\ content = <<>>
    /\ turn_resolutions = 0
    /\ round = 0
    /\ prepared_input = NoInput

\* ------------------------------------------------------------------------
\* SpecStream: main()'s loop around stream_with_retry
\* ------------------------------------------------------------------------
\* default of the max_retries parameter, which main() does not override
DefaultMaxRetries == 15

StreamIdle ==
    /\ pc = "prompt"
    /\ turn = 0
    /\ response_id = None
    /\ sequence_number = 0
    /\ max_retries = DefaultMaxRetries
    /\ attempt = 0
    /\ stream = NoStream
    /\ raised = NoError
    /\ driver = "idle"
    /\ n_responses = 0
    /\ received = <<>>
    /\ requests = <<>>
    /\ calls = 0
    /\ slept = <<>>
    /\ failures = NoFailures
    /\ last_failure = NoFailure
    /\ cancels = <<>>
    /\ last_cancel = "none"
    /\ n_open = 0
    /\ reported = NothingReported

InitStream ==
    /\ pc = "prompt"
    /\ turn = 0
    /\ response_id = None
    /\ sequence_number = 0
    /\ max_retries \in 1..MaxRetriesBound
    /\ attempt = 0
    /\ stream = NoStream
    /\ raised = NoError
    /\ driver = "idle"
    /\ n_responses = 0
    /\ received = <<>>
    /\ requests = <<>>
    /\ calls = 0
    /\ slept = <<>>
    /\ failures = NoFailures
    /\ last_failure = NoFailure
    /\ cancels = <<>>
    /\ last_cancel = "none"
    /\ n_open = 0
    /\ reported = NothingReported
    /\ UploadIdle
    /\ ParseIdle
    /\ PayloadIdle

\* for event in stream_with_retry(make_stream): the generator starts with
\* attempt 0; what the previous turn left behind is forgotten
StartDriver ==
    /\ pc' = "factory"
    /\ turn' = turn + 1
    /\ attempt' = 0
    /\ driver' = "running"
    /\ raised' = NoError
    /\ received' = <<>>
    /\ requests' = <<>>
    /\ calls' = 0
    /\ slept' = <<>>
    /\ failures' = NoFailures
    /\ last_failure' = NoFailure
    /\ last_cancel' = "none"
    /\ reported' = NothingReported
    /\ UNCHANGED <<response_id, sequence_number, max_retries, stream,
                   n_responses, cancels, n_open>>

\* session.prompt returns an input whose payload is not empty:
\* stream_with_retry(make_stream) starts
SubmitTurn ==
    /\ pc = "prompt"
    /\ turn < MaxTurns
    /\ StartDriver

\* except RETRY_EXCEPTIONS: raise on the last attempt, else sleep; any other
\* exception leaves the generator at once. An exception raised inside the
\* with block leaves the block first. An exception that leaves
\* stream_with_retry is not caught by main(): the process ends.
HandleException(e, at) ==
    /\ stream' = NoStream
    /\ n_open' = IF at = "stream" THEN ExitStream ELSE n_open
    /\ failures' = [failures EXCEPT ![at] = @ + 1]
    /\ last_failure' = [attempt |-> attempt, at |-> at, error |-> e]
    /\ IF IsRetryException(e) /\ ~IsLastAttempt
       THEN /\ slept' = Append(slept, BackoffDelay(attempt))
            /\ pc' = "sleeping"
            /\ UNCHANGED <<raised, driver>>
       ELSE /\ raised' = e
            /\ driver' = "raised"
            /\ pc' = "crashed"
            /\ UNCHANGED slept

\* stream_factory() returns a stream handle and the with block is entered
FactoryOpens ==
    /\ pc = "factory"
    /\ LET req == MakeStreamRequest IN
         /\ requests' = Append(requests, req)
         /\ stream' = ServiceStream(req)
         /\ n_responses' = IF req.kind = "create" THEN n_responses + 1 ELSE n_responses
    /\ calls' = calls + 1
    /\ n_open' = n_open + 1
    /\ pc' = "streaming"
    /\ UNCHANGED <<turn, response_id, sequence_number, max_retries, attempt,
                   raised, driver, received, slept, failures, last_failure,
                   cancels, last_cancel, reported>>

\* stream_factory() raises; a create request may or may not have reached the
\* service before the failure
FactoryRaises ==
    /\ pc = "factory"
    /\ \E e \in Errors, reached \in BOOLEAN :
         LET req == MakeStreamRequest IN
           /\ requests' = Append(requests, req)
           /\ n_responses' = IF req.kind = "create" /\ reached
                             THEN n_responses + 1 ELSE n_responses
           /\ calls' = calls + 1
           /\ HandleException(e, "factory")
    /\ UNCHANGED <<turn, response_id, sequence_number, max_retries, attempt,
                   received, cancels, last_cancel, reported>>

\* yield from stream: the next event reaches the consumer, whose loop body
\* records its sequence number and, for response.created, the response id
StreamYields ==
    /\ pc = "streaming"
    /\ stream.next < NumEvents
    /\ LET ev == Event(stream.rid, stream.next) IN
         /\ sequence_number' = ev.sequence_number
         /\ response_id' = IF ev.type = "response.created" THEN ev.rid ELSE response_id
         /\ received' = Append(received, ev)
    /\ stream' = [stream EXCEPT !.next = @ + 1]
    /\ UNCHANGED <<pc, turn, max_retries, attempt, raised, driver, n_responses,
                   requests, calls, slept, failures, last_failure, cancels,
                   last_cancel, n_open, reported>>

\* the stream raises while the driver waits for its next event
StreamRaises ==
    /\ pc = "streaming"
    /\ \E e \in Errors : HandleException(e, "stream")
    /\ UNCHANGED <<turn, response_id, sequence_number, max_retries, attempt,
                   n_responses, received, requests, calls, cancels,
                   last_cancel, reported>>

\* the stream is exhausted: the with block is left, return; main() goes round
\* its loop, resets response_id and sequence_number and prompts again
StreamEnds ==
    /\ pc = "streaming"
    /\ stream.next >= NumEvents
    /\ stream' = NoStream
    /\ n_open' = ExitStream
    /\ driver' = "returned"
    /\ pc' = "prompt"
    /\ response_id' = None
    /\ sequence_number' = 0
    /\ UNCHANGED <<turn, max_retries, attempt, raised, n_responses, received,
                   requests, calls, slept, failures, last_failure, cancels,
                   last_cancel, reported>>

\* sleep() returns: the for loop takes the next attempt
Wake ==
    /\ pc = "sleeping"
    /\ attempt' = attempt + 1
    /\ pc' = "factory"
    /\ UNCHANGED <<turn, response_id, sequence_number, max_retries, stream, raised,
                   driver, n_responses, received, requests, calls, slept,
                   failures, last_failure, cancels, last_cancel, n_open, reported>>

\* the places of a loop round where KeyboardInterrupt can be raised
Interruptible == {"prompt", "building", "factory", "streaming", "sleeping"}

\* KeyboardInterrupt: the generator, if any, is unwound and closed (its with
\* block is left); on_cancel(), the message, then continue: the next loop
\* round resets response_id and sequence_number and prompts
Interrupt ==
    /\ pc \in Interruptible
    /\ cancels' = OnCancel
    /\ \E outcome \in CancelOutcomes : last_cancel' = outcome
    /\ reported' = CANCELLED
    /\ driver' = IF driver = "running" THEN "abandoned" ELSE driver
    /\ stream' = NoStream
    /\ n_open' = IF pc = "streaming" THEN ExitStream ELSE n_open
    /\ response_id' = None
    /\ sequence_number' = 0
    /\ pc' = "prompt"
    /\ UNCHANGED <<turn, max_retries, attempt, raised, n_responses, received,
                   requests, calls, slept, failures, last_failure>>

\* EOFError from session.prompt: on_cancel(), the message, then break
EndOfInput ==
    /\ pc = "prompt"
    /\ cancels' = OnCancel
    /\ \E outcome \in CancelOutcomes : last_cancel' = outcome
    /\ reported' = BYE
    /\ pc' = "exited"
    /\ UNCHANGED <<turn, response_id, sequence_number, max_retries, attempt,
                   stream, raised, driver, n_responses, received, requests,
                   calls, slept, failures, last_failure, n_open>>

NextStream ==
    \/ SubmitTurn /\ UNCHANGED <<uploadVars, parseVars, payloadVars>>
    \/ FactoryOpens /\ UNCHANGED <<uploadVars, parseVars, payloadVars>>
    \/ FactoryRaises /\ UNCHANGED <<uploadVars, parseVars, payloadVars>>
    \/ StreamYields /\ UNCHANGED <<uploadVars, parseVars, payloadVars>>
    \/ StreamRaises /\ UNCHANGED <<uploadVars, parseVars, payloadVars>>
    \/ StreamEnds /\ UNCHANGED <<uploadVars, parseVars, payloadVars>>
    \/ Wake /\ UNCHANGED <<uploadVars, parseVars, payloadVars>>
    \/ Interrupt /\ UNCHANGED <<uploadVars, parseVars, payloadVars>>
    \/ EndOfInput /\ UNCHANGED <<uploadVars, parseVars, payloadVars>>

SpecStream == InitStream /\ [][NextStream]_vars

\* The program is single-threaded and keeps running: a factory call and a
\* wait for the next event return or raise, and sleep() returns. Nothing is
\* assumed of the user (SubmitTurn, Interrupt, EndOfInput).
DriverStep ==
    /\ \/ FactoryOpens
       \/ FactoryRaises
       \/ StreamYields
       \/ StreamRaises
       \/ StreamEnds
       \/ Wake
    /\ UNCHANGED <<uploadVars, parseVars, payloadVars>>

FairSpecStream == SpecStream /\ WF_vars(DriverStep)

\* ------------------------------------------------------------------------
\* SpecBackoff: stream_with_retry with every max_retries up to its default,
\* in the runs where every attempt fails in the factory
\* ------------------------------------------------------------------------
InitBackoff ==
    /\ pc = "prompt"
    /\ turn = 0
    /\ response_id = None
    /\ sequence_number = 0
    /\ max_retries \in 1..DefaultMaxRetries
    /\ attempt = 0
    /\ stream = NoStream
    /\ raised = NoError
    /\ driver = "idle"
    /\ n_responses = 0
    /\ received = <<>>
    /\ requests = <<>>
    /\ calls = 0
    /\ slept = <<>>
    /\ failures = NoFailures
    /\ last_failure = NoFailure
    /\ cancels = <<>>
    /\ last_cancel = "none"
    /\ n_open = 0
    /\ reported = NothingReported
    /\ UploadIdle
    /\ ParseIdle
    /\ PayloadIdle

NextBackoff ==
    \/ SubmitTurn /\ UNCHANGED <<uploadVars, parseVars, payloadVars>>
    \/ FactoryRaises /\ UNCHANGED <<uploadVars, parseVars, payloadVars>>
    \/ Wake /\ UNCHANGED <<uploadVars, parseVars, payloadVars>>

SpecBackoff == InitBackoff /\ [][NextBackoff]_vars

\* ------------------------------------------------------------------------
\* SpecUpload: the attachments of a session, resolved one after the other
\* ------------------------------------------------------------------------
InitUpload == StreamIdle /\ UploadIdle /\ ParseIdle /\ PayloadIdle

\* the service answers only the calls that are made: the replies to choose
\* from when the resolution issues an upload call, a content call
NoReply == [exc |-> NoExc, bytes |-> NoBytes]
NoReadback == [exc |-> NoExc, chunks |-> <<>>]

RepliesToUpload(kind, source) ==
    IF resolve_attachment_item(kind, source, NoReply, NoReadback).upload.uploaded
    THEN UploadReplies ELSE {NoReply}

RepliesToReadback(kind, source, up) ==
    IF resolve_attachment_item(kind, source, up, NoReadback).upload.read_back
    THEN ReadbackReplies ELSE {NoReadback}

\* what one call of resolve_attachment_item leaves behind: the cache, the
\* service's counters and the record of the call, r being its result
Resolved(kind, source, up, rb, r) ==
    \E u \in {r.upload}, local \in {compute_sha256_and_size(source.file)} :
         /\ upload_cache' = u.cache
         /\ upload_calls' = IF u.uploaded
                            THEN [upload_calls EXCEPT ![u.key] = @ + 1]
                            ELSE upload_calls
         /\ download_calls' = IF u.read_back THEN download_calls + 1 ELSE download_calls
         /\ failed_uploads' = IF u.uploaded /\ u.key \notin DOMAIN u.cache
                              THEN [failed_uploads EXCEPT ![u.key] = @ + 1]
                              ELSE failed_uploads
         /\ n_files' = IF u.uploaded /\ up.exc = NoExc THEN n_files + 1 ELSE n_files
         /\ n_resolutions' = n_resolutions + 1
         /\ last_resolution' =
              [kind |-> kind, path |-> source.file.path, filename |-> source.file.name,
               sha256 |-> local[1], size |-> local[2],
               mime_type |-> guess_mime_type(source.file),
               key |-> u.key, exc |-> u.exc, file_id |-> u.file_id,
               fragment |-> r.fragment, uploaded |-> u.uploaded,
               read_back |-> u.read_back,
               upload_exc |-> IF u.uploaded THEN up.exc ELSE NoExc,
               reported_bytes |-> IF u.uploaded THEN up.bytes ELSE NoBytes,
               readback_exc |-> IF u.read_back THEN rb.exc ELSE NoExc,
               remote |-> u.remote]

\* build_input_payload resolves one attachment: resolve_attachment_item with
\* the process-wide upload_cache. An exception ends the turn (Attachment
\* error, or Cancelled for KeyboardInterrupt) and the session goes on.
Resolve ==
    /\ n_resolutions < MaxResolutions
    /\ \E kind \in AttachmentKinds, source \in Sources :
        \E up \in RepliesToUpload(kind, source) :
        \E rb \in RepliesToReadback(kind, source, up) :
        \E r \in {resolve_attachment_item(kind, source, up, rb)} :
             Resolved(kind, source, up, rb, r)
    /\ UNCHANGED <<streamVars, parseVars, payloadVars>>

NextUpload == Resolve

SpecUpload == InitUpload /\ [][NextUpload]_vars

\* ------------------------------------------------------------------------
\* SpecParse: one raw input, parsed
\* ------------------------------------------------------------------------
InitParse ==
    /\ StreamIdle
    /\ UploadIdle
    /\ PayloadIdle
    /\ raw_input \in RawInputs
    /\ parsed_turn = NotParsed

\* parsed_turn = parse_turn_input(raw_input)
Parse ==
    /\ ~parsed_turn.parsed
    /\ parsed_turn' = parse_turn_input(raw_input)
    /\ UNCHANGED <<raw_input, streamVars, uploadVars, payloadVars>>

NextParse == Parse

SpecParse == InitParse /\ [][NextParse]_vars

\* ------------------------------------------------------------------------
\* SpecMain: the loop of main(), from the prompt through parse_turn_input,
\* build_input_payload and stream_with_retry back to the prompt
\* ------------------------------------------------------------------------
\* what session.prompt returns in the model
TurnInputs == {
    <<"h", "e", "l", "l", "o", "\n", "/", "f", "i", "l", "e", " ", "n", "o", "t", "e", "s", ".", "t", "x", "t", "\n", "w", "o", "r", "l", "d">>,
    <<"/", "i", "m", "a", "g", "e", " ", "a", ".", "p", "n", "g", "\n", "/", "h", "e", "l", "p", "\n">>,
    <<>>,
    <<"/", "f", "i", "l", "e", " ", "g", "o", "n", "e", ".", "p", "n", "g", "\n">>,
    <<"/", "i", "m", "a", "g", "e", " ", "n", "o", "t", "e", "s", ".", "t", "x", "t", "\n">>,
    <<"/", "f", "i", "l", "e", " ", "d", "i", "r", "\n">>,
    <<"/", "f", "i", "l", "e", " ", "s", "e", "c", "r", "e", "t", ".", "b", "i", "n", "\n">>,
    <<"/", "f", "i", "l", "e", " ", "N", "o", "t", " ", "a", "l", "l", "o", "w", "e", "d", " ", "t", "o", " ", "d", "o", "w", "n", "l", "o", "a", "d", " ", "f", "i", "l", "e", "s", " ", "o", "f", " ", "p", "u", "r", "p", "o", "s", "e", ".", "p", "n", "g">>,
    <<"h", "e", "l", "l", "o", "\n">>,
    <<" ", "\n", "/", "i", "m", "a", "g", "e", " ", "h", "t", "t", "p", "s", ":", "/", "/", "h", "o", "s", "t", "/", "x", ".", "p", "n", "g", "\n">> }

\* the local file a relative path names (resolve_local_path)
LocalSource(path) ==
    [scheme |-> "", netloc |-> "", file |-> CHOOSE f \in FileSystem : f.path = path]

\* the source texts the inputs use, with what urlparse and resolve_local_path
\* make of them
NamedSources == {
    <<<<"n", "o", "t", "e", "s", ".", "t", "x", "t">>,
      LocalSource("notes.txt")>>,
    <<<<"a", ".", "p", "n", "g">>,
      LocalSource("a.png")>>,
    <<<<"g", "o", "n", "e", ".", "p", "n", "g">>,
      LocalSource("gone.png")>>,
    <<<<"d", "i", "r">>,
      LocalSource("dir")>>,
    <<<<"s", "e", "c", "r", "e", "t", ".", "b", "i", "n">>,
      LocalSource("secret.bin")>>,
    <<<<"N", "o", "t", " ", "a", "l", "l", "o", "w", "e", "d", " ", "t", "o", " ", "d", "o", "w", "n", "l", "o", "a", "d", " ", "f", "i", "l", "e", "s", " ", "o", "f", " ", "p", "u", "r", "p", "o", "s", "e", ".", "p", "n", "g">>,
      LocalSource("Not allowed to download files of purpose.png")>>,
    <<<<"h", "t", "t", "p", "s", ":", "/", "/", "h", "o", "s", "t", "/", "x", ".", "p", "n", "g">>,
      [scheme |-> "https", netloc |-> "host", file |-> NoFile("https://host/x.png")]>> }

\* attachment.source as is_http_url and resolve_local_path see it; a text that
\* names nothing is a path without a file
SourceOf(text) ==
    IF \E n \in NamedSources : n[1] = text
    THEN (CHOOSE n \in NamedSources : n[1] = text)[2]
    ELSE [scheme |-> "", netloc |-> "", file |-> NoFile("unknown")]

\* any(isinstance(part, AttachmentSpec) for part in parts)
HasAttachment(parts) == \E i \in 1..Len(parts) : parts[i].type = "attachment"

RECURSIVE JoinText(_)
\* "".join(part for part in parts if isinstance(part, str))
JoinText(parts) ==
    IF parts = <<>> THEN <<>>
    ELSE (IF Head(parts).type = "text" THEN Head(parts).text ELSE <<>>) \o JoinText(Tail(parts))

\* a text fragment that carries the part as it is
FragmentTextVerbatim(part) == part.text

\* text = part.strip()
FragmentText(part) == strip(part.text)

\* {"type": "input_text", "text": text}
InputText(text) == [type |-> "input_text", text |-> text]

\* the two shapes of the payload: a string, or [{"role": "user", "content": content}]
TextInput(text) == [kind |-> "text", text |-> text]
Message(fragments) == [kind |-> "message", role |-> "user", content |-> fragments]

\* a loop round that has not started the driver (yet): nothing of the
\* previous round's run is left
IdleRound(next_pc, message) ==
    /\ pc' = next_pc
    /\ reported' = message
    /\ last_cancel' = "none"
    /\ attempt' = 0
    /\ driver' = "idle"
    /\ raised' = NoError
    /\ received' = <<>>
    /\ requests' = <<>>
    /\ calls' = 0
    /\ slept' = <<>>
    /\ failures' = NoFailures
    /\ last_failure' = NoFailure
    /\ UNCHANGED <<turn, response_id, sequence_number, max_retries, stream,
                   n_responses, cancels, n_open>>

\* continue: back to the prompt, with the message printed on the way
EndRound(message) ==
    /\ pc' = "prompt"
    /\ reported' = message
    /\ UNCHANGED <<turn, response_id, sequence_number, max_retries, attempt, stream,
                   raised, driver, n_responses, received, requests, calls, slept,
                   failures, last_failure, cancels, last_cancel, n_open>>

\* session.prompt returns raw_input: the empty input, /help and an input
\* without parts end the round; an input without attachments is its own
\* payload; otherwise build_input_payload starts on the parts
ReadInput ==
    /\ pc = "prompt"
    /\ round < MaxRounds
    /\ round' = round + 1
    /\ \E raw \in TurnInputs :
         \E parsed \in {IF raw = <<>> THEN NotParsed ELSE parse_turn_input(raw)} :
           /\ raw_input' = raw
           /\ parsed_turn' = parsed
           /\ content' = <<>>
           /\ turn_resolutions' = 0
           /\ IF raw = <<>> \/ parsed.show_help \/ parsed.parts = <<>>
              THEN /\ IdleRound("prompt", IF parsed.show_help THEN SLASH_HELP
                                          ELSE NothingReported)
                   /\ todo' = <<>>
                   /\ prepared_input' = NoInput
              ELSE IF HasAttachment(parsed.parts)
              THEN /\ IdleRound("building", NothingReported)
                   /\ todo' = parsed.parts
                   /\ prepared_input' = NoInput
              ELSE /\ todo' = <<>>
                   /\ prepared_input' = TextInput(JoinText(parsed.parts))
                   /\ IF JoinText(parsed.parts) = <<>>
                      THEN IdleRound("prompt", NothingReported)
                      ELSE StartDriver
    /\ UNCHANGED uploadVars

\* the end of build_input_payload and what main() does with its result: an
\* empty payload ends the round, any other starts the driver
FinishBuild(fragments) ==
    IF fragments = <<>>
    THEN prepared_input' = TextInput(<<>>) /\ EndRound(NothingReported)
    ELSE prepared_input' = Message(fragments) /\ StartDriver

\* build_input_payload at a text part: its fragment, if anything is left of
\* the text
BuildText ==
    /\ pc = "building"
    /\ todo # <<>>
    /\ Head(todo).type = "text"
    /\ \E text \in {FragmentText(Head(todo))} :
       \E fragments \in {IF text # <<>> THEN Append(content, InputText(text)) ELSE content} :
         /\ todo' = Tail(todo)
         /\ content' = fragments
         /\ IF Tail(todo) = <<>>
            THEN FinishBuild(fragments)
            ELSE UNCHANGED <<prepared_input, streamVars>>
    /\ UNCHANGED <<uploadVars, parseVars, turn_resolutions, round>>

\* build_input_payload at an attachment: resolve_attachment_item. An
\* Exception is caught by main() (Attachment error, continue); a
\* KeyboardInterrupt during the upload is handled as everywhere else
BuildAttachment ==
    /\ pc = "building"
    /\ todo # <<>>
    /\ Head(todo).type = "attachment"
    /\ n_resolutions < MaxResolutions
    /\ \E kind \in {Head(todo).kind}, source \in {SourceOf(Head(todo).text)} :
        \E up \in RepliesToUpload(kind, source) :
        \E rb \in RepliesToReadback(kind, source, up) :
        \E r \in {resolve_attachment_item(kind, source, up, rb)} :
          /\ Resolved(kind, source, up, rb, r)
          /\ turn_resolutions' = turn_resolutions + 1
          /\ IF r.upload.exc = NoExc
             THEN \E fragments \in {Append(content, r.fragment)} :
                    /\ todo' = Tail(todo)
                    /\ content' = fragments
                    /\ IF Tail(todo) = <<>>
                       THEN FinishBuild(fragments)
                       ELSE UNCHANGED <<prepared_input, streamVars>>
             ELSE /\ todo' = <<>>
                  /\ content' = <<>>
                  /\ prepared_input' = NoInput
                  /\ IF IsException(r.upload.exc)
                     THEN EndRound(ATTACHMENT_ERROR)
                     ELSE Interrupt
    /\ UNCHANGED <<parseVars, round>>

InitMain ==
    /\ InitStream
    /\ max_retries = MainRetries

NextMain ==
    \/ ReadInput
    \/ BuildText
    \/ BuildAttachment
    \/ FactoryOpens /\ UNCHANGED <<uploadVars, parseVars, payloadVars>>
    \/ FactoryRaises /\ UNCHANGED <<uploadVars, parseVars, payloadVars>>
    \/ StreamYields /\ UNCHANGED <<uploadVars, parseVars, payloadVars>>
    \/ StreamRaises /\ UNCHANGED <<uploadVars, parseVars, payloadVars>>
    \/ StreamEnds /\ UNCHANGED <<uploadVars, parseVars, payloadVars>>
    \/ Wake /\ UNCHANGED <<uploadVars, parseVars, payloadVars>>
    \/ Interrupt /\ UNCHANGED <<uploadVars, parseVars, payloadVars>>
    \/ EndOfInput /\ UNCHANGED <<uploadVars, parseVars, payloadVars>>

SpecMain == InitMain /\ [][NextMain]_vars

\* ------------------------------------------------------------------------
\* Claims about the stream driver
\* ------------------------------------------------------------------------

\* C1: in one turn streamed through stream_with_retry with make_stream, under
\* any pattern of failures, the consumer receives the events of the response
\* it recorded exactly once and in increasing sequence-number order (the i-th
\* event received has sequence number i-1, all of one response), all of them
\* once the driver has returned, and every resume request names that response
\* and passes as starting_after the sequence number of the last event the
\* consumer processed before the request.
C1_ExactlyOnceInOrder ==
    /\ \A i \in 1..Len(received) :
          /\ received[i].sequence_number = i - 1
          /\ received[i].rid = received[1].rid
    /\ driver = "returned" => Len(received) = NumEvents
    /\ \A i \in 1..Len(requests) :
          requests[i].kind = "resume" =>
            /\ requests[i].n_received >= 1
            /\ requests[i].response_id = received[requests[i].n_received].rid
            /\ requests[i].starting_after =
                  received[requests[i].n_received].sequence_number

\* C1 witness: a turn that returned after a failure in mid-stream and a resume
\* from a sequence number above 0
C1_Witness ==
    /\ driver = "returned"
    /\ failures["stream"] >= 1
    /\ \E i \in 1..Len(requests) :
          requests[i].kind = "resume" /\ requests[i].starting_after >= 1

\* C2: when every failure of the run was raised by the factory (k of them, all
\* transient) and the next invocation streamed to its end, the driver yielded
\* exactly the events of that stream once and in order, slept exactly k times
\* and invoked the factory exactly k+1 times; and with k < max_retries such
\* failures the driver never gives up.
C2_FactoryFailsKTimes ==
    failures["stream"] = 0 =>
      LET k == failures["factory"] IN
        /\ driver = "returned" =>
              /\ calls = k + 1
              /\ Len(slept) = k
              /\ received = [i \in 1..NumEvents |-> Event(n_responses, i - 1)]
        /\ (driver = "raised" /\ IsRetryException(raised)) => k = max_retries

\* C2 witness: the spec's case, two failing invocations and a third that
\* streams to its end
C2_Witness ==
    /\ driver = "returned"
    /\ failures["stream"] = 0
    /\ failures["factory"] = 2
    /\ calls = 3
    /\ Len(received) = NumEvents

\* C3: an exception that is not a transient network error, raised by the
\* factory or by the stream on any attempt, leaves stream_with_retry at once:
\* it is the exception the caller gets, no sleep follows it (as many sleeps as
\* earlier attempts) and the factory is not invoked again (as many calls as
\* attempts so far).
C3_NonNetworkPropagates ==
    (last_failure # NoFailure /\ last_failure.error \notin RETRY_EXCEPTIONS) =>
      /\ pc = "crashed"
      /\ driver = "raised"
      /\ raised = last_failure.error
      /\ attempt = last_failure.attempt
      /\ calls = last_failure.attempt + 1
      /\ Len(slept) = last_failure.attempt
      /\ stream = NoStream

\* C3 witness: a malformed event on a later attempt, in mid-stream
C3_Witness ==
    /\ pc = "crashed"
    /\ raised = "ValueError"
    /\ last_failure.at = "stream"
    /\ last_failure.attempt >= 1
    /\ Len(received) >= 1

\* the C4 bounds: at most max_retries factory calls and max_retries - 1 sleeps,
\* and a transient failure of the last attempt is raised unchanged with no
\* further sleep
C4_Bounds ==
    /\ calls <= max_retries
    /\ Len(slept) <= max_retries - 1
    /\ attempt <= max_retries - 1
    /\ (last_failure.attempt = max_retries - 1 /\ IsRetryException(last_failure.error)) =>
          /\ pc = "crashed"
          /\ driver = "raised"
          /\ raised = last_failure.error
          /\ calls = max_retries
          /\ Len(slept) = max_retries - 1

\* C4: for max_retries = N >= 1 one run invokes the factory at most N times
\* and sleeps at most N-1 times, whether or not events were delivered between
\* the failures; a transient failure of the N-th attempt is raised to the
\* caller with no further sleep; and every run of the driver ends.
C4_AttemptCap == []C4_Bounds /\ ((driver = "running") ~> (driver # "running"))

\* C4 witness: the last attempt failed with a transient error after events
\* had been delivered in an earlier attempt
C4_Witness ==
    /\ pc = "crashed"
    /\ IsRetryException(raised)
    /\ max_retries >= 2
    /\ calls = max_retries
    /\ Len(received) >= 2

\* C15 as claimed: within one turn only the first invocation of the stream
\* factory issues a response-create request, every later invocation is a
\* resume request, and so at most one response is created per turn.
C15_CreateOnlyOnce ==
    /\ \A i \in 1..Len(requests) :
          requests[i].kind = IF i = 1 THEN "create" ELSE "resume"
    /\ n_responses <= turn

\* a step that ends in on_cancel(): the messages of the two handlers are
\* printed by nothing else
IsCancelStep == reported' \in {CANCELLED, BYE}

\* C16: whenever main() prompts, response_id and sequence_number are None and
\* 0; a cancel request is sent only in the KeyboardInterrupt and EOFError
\* handlers and only for the response id recorded in the current turn (the
\* response the turn's first request created); with no response id recorded
\* nothing is sent; and a cancel request that fails changes nothing but
\* itself: the message is printed and the loop continues or ends as it would
\* have.
C16_CancelCurrentOnly ==
    /\ [](pc = "prompt" => (response_id = None /\ sequence_number = 0))
    /\ [][/\ cancels' # cancels => IsCancelStep
          /\ IsCancelStep =>
               /\ pc' = IF reported' = BYE THEN "exited" ELSE "prompt"
               /\ UNCHANGED <<turn, n_responses, max_retries, uploadVars>>
               /\ IF response_id = None
                  THEN cancels' = cancels /\ last_cancel' = "noop"
                  ELSE /\ last_cancel' \in {"sent", "failed"}
                       /\ cancels' = Append(cancels, response_id)
                       /\ received # <<>>
                       /\ received[1].type = "response.created"
                       /\ received[1].rid = response_id
                       /\ \A i \in 1..Len(cancels) : cancels[i] < response_id]_vars

\* C16 witness: the second turn's response cancelled, the cancel request
\* failing, and main() back at its prompt
C16_Witness ==
    /\ pc = "prompt"
    /\ turn = 2
    /\ n_responses = 2
    /\ last_cancel = "failed"
    /\ reported = CANCELLED
    /\ cancels = <<2>>

\* C20: every stream handle is released before the driver sleeps, calls the
\* factory again, returns or raises: at most one handle is open at any time,
\* and only while the driver is running and in its yield from; none is open
\* once the driver has returned, raised or been abandoned by its consumer.
C20_StreamReleased ==
    /\ n_open \in {0, 1}
    /\ n_open = 1 => (pc = "streaming" /\ driver = "running")
    /\ (n_open = 1) <=> (stream # NoStream)

\* C20 witness: the driver asleep after its stream failed in mid-stream
C20_Witness ==
    /\ pc = "sleeping"
    /\ last_failure.at = "stream"
    /\ Len(received) >= 1
    /\ n_open = 0

\* C19: the i-th sleep of a run (after the failed attempt i-1, which is not
\* the last) lasts sleep_seconds * min(max_retries, 2^(i-1)); the delays never
\* decrease and never exceed sleep_seconds * max_retries; with the defaults
\* they are 1, 2, 4, 8 and then 15.
C19_BackoffDelays ==
    /\ Len(slept) <= max_retries - 1
    /\ \A i \in 1..Len(slept) :
          /\ slept[i] = sleep_seconds *
                          (IF Pow2(i - 1) <= max_retries THEN Pow2(i - 1) ELSE max_retries)
          /\ slept[i] <= sleep_seconds * max_retries
          /\ i > 1 => slept[i - 1] <= slept[i]
          /\ (max_retries = DefaultMaxRetries /\ sleep_seconds = 1) =>
                slept[i] = CASE i = 1 -> 1
                             [] i = 2 -> 2
                             [] i = 3 -> 4
                             [] i = 4 -> 8
                             [] OTHER -> 15

\* C19 witness: the default max_retries, every attempt failed, all fourteen
\* sleeps taken
C19_Witness ==
    /\ max_retries = DefaultMaxRetries
    /\ pc = "crashed"
    /\ Len(slept) = DefaultMaxRetries - 1
    /\ slept[Len(slept)] = DefaultMaxRetries

\* ------------------------------------------------------------------------
\* Claims about the upload cache
\* ------------------------------------------------------------------------
\* the key (digest, size, mimeType) of the content the latest resolution was given
LastKey == <<last_resolution.sha256, last_resolution.size, last_resolution.mime_type>>

\* C5 as claimed: for each key (contentDigest, byteSize, mimeType) at most one
\* upload call is ever issued, whether earlier resolutions succeeded or failed.
C5_AtMostOneUpload == \A k \in AllKeys : upload_calls[k] <= 1

\* C5 as amended: for each key the number of upload calls is the number of
\* resolutions of it that uploaded and stored no cache entry (they failed or
\* were interrupted), plus one if the key is cached; so content is uploaded
\* once for all resolutions from the first that succeeds, and again only after
\* a resolution that failed.
C5_OneUploadPerSuccess ==
    \A k \in AllKeys :
      upload_calls[k] = failed_uploads[k] + (IF k \in DOMAIN upload_cache THEN 1 ELSE 0)

\* C5 witness: content uploaded twice, the first upload having failed, then
\* served from the cache
C5_Witness ==
    /\ last_resolution.key \in DOMAIN upload_cache
    /\ ~last_resolution.uploaded
    /\ upload_calls[last_resolution.key] = 2
    /\ failed_uploads[last_resolution.key] = 1

\* C6: a resolution whose key (digest, size, mimeType) is in the cache returns
\* the cached identifier, makes no upload and no download call and leaves the
\* cache as it is; a resolution whose key is not in the cache (the same bytes
\* under another MIME type included) issues an upload call.
C6_CacheHitNoNetwork ==
    [][ (n_resolutions' = n_resolutions + 1 /\ last_resolution'.key # NoKey) =>
          LET key == <<last_resolution'.sha256, last_resolution'.size,
                       last_resolution'.mime_type>>
          IN  IF key \in DOMAIN upload_cache
              THEN /\ last_resolution'.exc = NoExc
                   /\ last_resolution'.file_id = upload_cache[key]
                   /\ last_resolution'.fragment.file_id = upload_cache[key]
                   /\ upload_calls' = upload_calls
                   /\ download_calls' = download_calls
                   /\ upload_cache' = upload_cache
              ELSE /\ last_resolution'.uploaded
                   /\ last_resolution'.key = key
                   /\ upload_calls'[key] = upload_calls[key] + 1 ]_vars

\* C6 witness: the same bytes cached under two MIME types (two uploads), and
\* the latest resolution served from the cache
C6_Witness ==
    /\ last_resolution.key \in DOMAIN upload_cache
    /\ ~last_resolution.uploaded
    /\ last_resolution.file_id = upload_cache[last_resolution.key]
    /\ \E k \in DOMAIN upload_cache :
         /\ k[1] = last_resolution.sha256
         /\ k[2] = last_resolution.size
         /\ k[3] # last_resolution.mime_type
         /\ upload_cache[k] # last_resolution.file_id

\* C7: when the file object the upload returns reports a byte count other than
\* the local size, or none, the resolution fails with the size-mismatch
\* integrity error, no content readback is attempted and the cache is left as
\* it was, with no entry for the key.
C7_SizeMismatchFails ==
    [][ (/\ n_resolutions' = n_resolutions + 1
         /\ last_resolution'.uploaded
         /\ last_resolution'.upload_exc = NoExc
         /\ last_resolution'.reported_bytes # last_resolution'.size) =>
          /\ last_resolution'.exc.class = "ValueError"
          /\ StartsWith(last_resolution'.exc.message, <<"Upload size mismatch for">>)
          /\ last_resolution'.fragment = NoFragment
          /\ ~last_resolution'.read_back
          /\ download_calls' = download_calls
          /\ upload_cache' = upload_cache
          /\ LastKey' \notin DOMAIN upload_cache' ]_vars

\* C7 witness: a wrong byte count reported while the cache holds other entries
C7_Witness ==
    /\ last_resolution.uploaded
    /\ last_resolution.upload_exc = NoExc
    /\ last_resolution.reported_bytes = 1
    /\ last_resolution.size = 2
    /\ last_resolution.exc.class = "ValueError"
    /\ upload_cache # <<>>

\* C8 as claimed: whenever the readback succeeds and the remote digest or byte
\* count differs from the local one, the resolution fails and no cache entry
\* exists for the key, whatever the file's name.
C8_DigestMismatchFails ==
    (/\ last_resolution.read_back
     /\ last_resolution.readback_exc = NoExc
     /\ last_resolution.remote # <<last_resolution.sha256, last_resolution.size>>) =>
       /\ last_resolution.exc.class = "ValueError"
       /\ last_resolution.fragment = NoFragment
       /\ LastKey \notin DOMAIN upload_cache

\* C9 as claimed: with a matching upload size, the service's "not allowed to
\* download" rejection of the readback makes the resolution succeed with the
\* uploaded id stored under the key, and any other error raised during the
\* readback step propagates and leaves no cache entry for the key.
C9_ReadbackFallback ==
    last_resolution.read_back =>
      /\ last_resolution.readback_exc = ForbiddenError =>
           /\ last_resolution.exc = NoExc
           /\ last_resolution.file_id # None
           /\ LastKey \in DOMAIN upload_cache
           /\ upload_cache[LastKey] = last_resolution.file_id
      /\ (\/ last_resolution.readback_exc \notin {NoExc, ForbiddenError}
          \/ /\ last_resolution.readback_exc = NoExc
             /\ last_resolution.remote # <<last_resolution.sha256, last_resolution.size>>) =>
           /\ last_resolution.exc # NoExc
           /\ LastKey \notin DOMAIN upload_cache

\* ------------------------------------------------------------------------
\* Claims about the turn parser
\* ------------------------------------------------------------------------
\* some line of the raw input starts with a slash once its leading whitespace
\* is trimmed
HasSlashLine(raw) ==
    \E i \in 1..Len(splitlines(raw)) : StartsWith(lstrip(splitlines(raw)[i]), SLASH)

\* C10 as claimed: for every raw input without a slash-prefixed line, the
\* empty input included, parts is exactly one text segment equal to the input
\* and showHelp is false.
C10_OneTextSegment ==
    (parsed_turn.parsed /\ ~HasSlashLine(raw_input)) =>
      /\ parsed_turn.parts = <<TextPart(raw_input)>>
      /\ ~parsed_turn.show_help

\* C10 as amended: for every non-empty raw input without a slash-prefixed
\* line (inputs of whitespace or line ends only included) parts is exactly one
\* text segment equal to the input and showHelp is false; for the empty input
\* parts is empty and showHelp is false.
C10_OneTextSegmentUnlessEmpty ==
    (parsed_turn.parsed /\ ~HasSlashLine(raw_input)) =>
      /\ parsed_turn.parts = IF raw_input = <<>> THEN <<>> ELSE <<TextPart(raw_input)>>
      /\ ~parsed_turn.show_help

\* C10 witness: an input of several lines, one of them of whitespace only,
\* parsed into one text segment
C10_Witness ==
    /\ parsed_turn.parsed
    /\ ~HasSlashLine(raw_input)
    /\ Len(splitlines(raw_input)) >= 2
    /\ \E i \in 1..Len(splitlines(raw_input)) : strip(splitlines(raw_input)[i]) = <<>>
    /\ parsed_turn.parts = <<TextPart(raw_input)>>

\* what a reader of the input sees in one line: escape, command with its
\* tokens, or plain text
IsEscapeLine(line) == StartsWith(lstrip(line), DOUBLE_SLASH)

IsSlashLine(line) == StartsWith(lstrip(line), SLASH) /\ ~IsEscapeLine(line)

Indent(line) == SubSeq(line, 1, Len(line) - Len(lstrip(line)))

\* the escape line with the first of its two slashes taken out
EscapedText(line) == Indent(line) \o Tail(lstrip(line))

LineTokens(line) == shlex_split(strip(line))

LineCommand(line) == lower(LineTokens(line).tokens[1])

LineSource(line) == strip(JoinSpace(Tail(LineTokens(line).tokens)))

IsHelpLine(line) ==
    IsSlashLine(line) /\ LineTokens(line).ok /\ LineCommand(line) = HELP_COMMAND

IsAttachmentLine(line) ==
    /\ IsSlashLine(line)
    /\ LineTokens(line).ok
    /\ LineCommand(line) \in {IMAGE_COMMAND, FILE_COMMAND}
    /\ Len(LineTokens(line).tokens) >= 2
    /\ LineSource(line) # <<>>

\* /image or /file without a source, an unknown command, an untokenizable line
IsNoArgumentLine(line) ==
    /\ IsSlashLine(line)
    /\ LineTokens(line).ok
    /\ LineCommand(line) \in {IMAGE_COMMAND, FILE_COMMAND}
    /\ (Len(LineTokens(line).tokens) = 1 \/ LineSource(line) = <<>>)

IsUnknownCommandLine(line) ==
    /\ IsSlashLine(line)
    /\ LineTokens(line).ok
    /\ LineCommand(line) \notin {HELP_COMMAND, IMAGE_COMMAND, FILE_COMMAND}

IsUntokenizableLine(line) == IsSlashLine(line) /\ ~LineTokens(line).ok

IsDegenerateSlashLine(line) ==
    IsNoArgumentLine(line) \/ IsUnknownCommandLine(line) \/ IsUntokenizableLine(line)

\* the text a line contributes to parts: nothing for a command that is obeyed
LineText(line) ==
    IF IsAttachmentLine(line) \/ IsHelpLine(line) THEN <<>>
    ELSE IF IsEscapeLine(line) THEN EscapedText(line)
    ELSE line

RECURSIVE TextBetween(_, _, _)
\* the text of lines[lo..hi]
TextBetween(lines, lo, hi) ==
    IF lo > hi THEN <<>> ELSE LineText(lines[lo]) \o TextBetween(lines, lo + 1, hi)

AttachmentLines(lines) == {i \in 1..Len(lines) : IsAttachmentLine(lines[i])}

AttachmentParts(parts) == {q \in 1..Len(parts) : parts[q].type = "attachment"}

TextParts(parts) == {q \in 1..Len(parts) : parts[q].type = "text"}

\* C11: every line whose left-trimmed content starts with "//" is emitted as
\* plain text with the "//" reduced to "/", its leading whitespace, the rest
\* of the line and its line end kept, and is never obeyed as a command: it
\* adds no attachment and does not set showHelp.
C11_EscapeIsText ==
    parsed_turn.parsed =>
      LET lines == splitlines(raw_input)
          parts == parsed_turn.parts
      IN  /\ \A i \in 1..Len(lines) :
                IsEscapeLine(lines[i]) =>
                  \E q \in TextParts(parts) : Contains(parts[q].text, EscapedText(lines[i]))
          /\ Cardinality(AttachmentParts(parts))
               <= Cardinality({i \in 1..Len(lines) : IsSlashLine(lines[i])})
          /\ parsed_turn.show_help => \E i \in 1..Len(lines) : IsSlashLine(lines[i])
          /\ (\A i \in 1..Len(lines) : ~IsSlashLine(lines[i])) =>
                /\ ~parsed_turn.show_help
                /\ parts = IF lines = <<>> THEN <<>>
                           ELSE <<TextPart(JoinLines(
                                    [i \in 1..Len(lines) |->
                                       IF IsEscapeLine(lines[i]) THEN EscapedText(lines[i])
                                       ELSE lines[i]]))>>

\* C11 witness: an indented "//image x.png" line parsed next to a real
\* /image line: one attachment, and the escaped line in the text
C11_Witness ==
    /\ parsed_turn.parsed
    /\ \E i \in 1..Len(splitlines(raw_input)) :
          /\ IsEscapeLine(splitlines(raw_input)[i])
          /\ Indent(splitlines(raw_input)[i]) # <<>>
    /\ Cardinality(AttachmentParts(parsed_turn.parts)) = 1
    /\ Cardinality(TextParts(parsed_turn.parts)) = 1

\* C12: every /image or /file line with a non-empty source yields one
\* AttachmentSpec of the matching kind at the line's position in parts: the
\* text lines since the previous attachment are one text segment right
\* before it, the text lines after the last attachment are one last segment,
\* and no two text segments are adjacent, so parts follows the input's order.
C12_AttachmentsInOrder ==
    parsed_turn.parsed =>
      LET lines == splitlines(raw_input)
          parts == parsed_turn.parts
          A == AttachmentLines(lines)
          P == AttachmentParts(parts)
          last == IF A = {} THEN 0 ELSE CHOOSE i \in A : \A j \in A : j <= i
          tail == TextBetween(lines, last + 1, Len(lines))
      IN  /\ Cardinality(A) = Cardinality(P)
          /\ \A i \in A :
               \E q \in P :
                 LET prev == IF \E j \in A : j < i
                             THEN CHOOSE j \in A : j < i /\ \A k \in A : k < i => k <= j
                             ELSE 0
                     before == TextBetween(lines, prev + 1, i - 1)
                 IN  /\ Cardinality({r \in P : r <= q}) = Cardinality({j \in A : j <= i})
                     /\ parts[q] = AttachmentSpec(
                                     IF LineCommand(lines[i]) = IMAGE_COMMAND
                                     THEN "image" ELSE "file",
                                     LineSource(lines[i]))
                     /\ IF before # <<>>
                        THEN q > 1 /\ parts[q - 1] = TextPart(before)
                        ELSE q = 1 \/ parts[q - 1].type = "attachment"
          /\ IF tail # <<>>
             THEN parts # <<>> /\ parts[Len(parts)] = TextPart(tail)
             ELSE parts = <<>> \/ parts[Len(parts)].type = "attachment"
          /\ \A q \in TextParts(parts) : q = Len(parts) \/ parts[q + 1].type = "attachment"

\* C12 witness: text, then an attachment line, then text again, parsed into
\* text segment, attachment, text segment
C12_Witness ==
    /\ parsed_turn.parsed
    /\ Len(parsed_turn.parts) = 3
    /\ parsed_turn.parts[1].type = "text"
    /\ parsed_turn.parts[2].type = "attachment"
    /\ parsed_turn.parts[3].type = "text"

\* C13: a /image or /file line without an argument or with an empty quoted
\* argument only, an unknown slash command and a slash line that fails
\* tokenization are kept verbatim as plain text: they add no attachment and
\* do not set showHelp.
C13_DegenerateSlashIsText ==
    parsed_turn.parsed =>
      LET lines == splitlines(raw_input)
          parts == parsed_turn.parts
      IN  /\ \A i \in 1..Len(lines) :
                IsDegenerateSlashLine(lines[i]) =>
                  \E q \in TextParts(parts) : Contains(parts[q].text, lines[i])
          /\ Cardinality(AttachmentParts(parts))
               <= Cardinality({i \in 1..Len(lines) :
                                 IsSlashLine(lines[i]) /\ ~IsDegenerateSlashLine(lines[i])})
          /\ parsed_turn.show_help =>
               \E i \in 1..Len(lines) :
                 IsSlashLine(lines[i]) /\ ~IsDegenerateSlashLine(lines[i])
          /\ (/\ lines # <<>>
              /\ \A i \in 1..Len(lines) :
                   IsSlashLine(lines[i]) => IsDegenerateSlashLine(lines[i])
              /\ \A i \in 1..Len(lines) : ~IsEscapeLine(lines[i])) =>
                /\ ~parsed_turn.show_help
                /\ parts = <<TextPart(raw_input)>>

\* C13 witness: "/image ''" and an unterminated quote parsed into one text
\* segment equal to the input
C13_Witness ==
    /\ parsed_turn.parsed
    /\ \E i \in 1..Len(splitlines(raw_input)) : IsNoArgumentLine(splitlines(raw_input)[i])
    /\ \E i \in 1..Len(splitlines(raw_input)) : IsUntokenizableLine(splitlines(raw_input)[i])
    /\ parsed_turn.parts = <<TextPart(raw_input)>>

\* ------------------------------------------------------------------------
\* Claims about the loop of main()
\* ------------------------------------------------------------------------
\* the input of the spec's end-to-end scenario
Scenario ==
    <<"h", "e", "l", "l", "o", "\n", "/", "f", "i", "l", "e", " ", "n", "o", "t", "e", "s", ".", "t", "x", "t", "\n", "w", "o", "r", "l", "d">>

\* the parts of the parsed turn that leave a fragment in the payload
KeptParts(parts) ==
    {i \in 1..Len(parts) : parts[i].type = "attachment" \/ strip(parts[i].text) # <<>>}

\* C14 as claimed: the fragments of a structured payload follow the order of
\* parts, one per part, each text fragment carrying the text of its part; for
\* "hello\n/file notes.txt\nworld" they are the text "hello\n", the
\* input_file fragment of notes.txt and the text "world".
C14_FragmentsCarryParts ==
    prepared_input.kind = "message" =>
      LET parts == parsed_turn.parts
          c == prepared_input.content
      IN  /\ Len(c) = Len(parts)
          /\ \A i \in 1..Len(parts) :
                IF parts[i].type = "text"
                THEN c[i] = [type |-> "input_text", text |-> parts[i].text]
                ELSE c[i].type = IF parts[i].kind = "image" THEN "input_image"
                                 ELSE "input_file"
          /\ raw_input = Scenario =>
                /\ c[1] = [type |-> "input_text", text |-> <<"h", "e", "l", "l", "o", "\n">>]
                /\ c[2].type = "input_file" /\ c[2].filename = <<"notes", ".txt">>
                /\ c[3] = [type |-> "input_text", text |-> <<"w", "o", "r", "l", "d">>]

\* C14 as amended: the fragments of a structured payload follow the order of
\* parts; an attachment leaves the fragment of its file or URL, a text part
\* leaves a text fragment carrying its text without leading and trailing
\* whitespace, and no fragment when nothing but whitespace is in it; for
\* "hello\n/file notes.txt\nworld" they are the text "hello", the input_file
\* fragment of notes.txt and the text "world".
C14_FragmentsCarryStrippedParts ==
    prepared_input.kind = "message" =>
      LET parts == parsed_turn.parts
          c == prepared_input.content
          kept == KeptParts(parts)
      IN  /\ Len(c) = Cardinality(kept)
          /\ \A i \in kept :
                LET f == c[Cardinality({j \in kept : j <= i})] IN
                  IF parts[i].type = "text"
                  THEN f = [type |-> "input_text", text |-> strip(parts[i].text)]
                  ELSE IF parts[i].kind = "file"
                  THEN /\ f.type = "input_file"
                       /\ f.filename = SourceOf(parts[i].text).file.name
                       /\ f.file_id \in 1..n_files
                  ELSE IF is_http_url(SourceOf(parts[i].text))
                  THEN f = [type |-> "input_image", detail |-> "high",
                            image_url |-> SourceOf(parts[i].text).file.path]
                  ELSE /\ f.type = "input_image"
                       /\ f.detail = "high"
                       /\ f.file_id \in 1..n_files
          /\ raw_input = Scenario =>
                /\ Len(c) = 3
                /\ c[1] = [type |-> "input_text", text |-> <<"h", "e", "l", "l", "o">>]
                /\ c[2] = [type |-> "input_file", file_id |-> c[2].file_id,
                           filename |-> <<"notes", ".txt">>]
                /\ c[3] = [type |-> "input_text", text |-> <<"w", "o", "r", "l", "d">>]

\* C14 witness: the scenario's payload built and handed to the driver
C14_Witness ==
    /\ raw_input = Scenario
    /\ prepared_input.kind = "message"
    /\ Len(prepared_input.content) = 3
    /\ pc = "factory"

\* the latest resolution uploaded the file and the service's byte count or
\* the bytes it returned differ from the local file
IntegrityFault(res) ==
    /\ res.uploaded
    /\ res.upload_exc = NoExc
    /\ \/ res.reported_bytes # res.size
       \/ /\ res.read_back
          /\ res.readback_exc = NoExc
          /\ res.remote # <<res.sha256, res.size>>

\* an exception of resolve_attachment_item ends the round at once: it is
\* reported, no payload and no request come of it, and main() prompts again
AttachmentErrorEndsTurn ==
    (turn_resolutions >= 1 /\ last_resolution.exc # NoExc /\ IsException(last_resolution.exc)) =>
      /\ pc \in {"prompt", "exited"}
      /\ reported \in {ATTACHMENT_ERROR, CANCELLED, BYE}
      /\ prepared_input = NoInput
      /\ requests = <<>>

\* /help, the empty input and an input without parts: no upload, no request
SkippedTurnDoesNothing ==
    (round >= 1 /\ (raw_input = <<>> \/ parsed_turn.show_help \/ parsed_turn.parts = <<>>)) =>
      /\ pc \in {"prompt", "exited"}
      /\ turn_resolutions = 0
      /\ prepared_input = NoInput
      /\ requests = <<>>

\* C17 as claimed: when the resolution of an attachment of the turn fails
\* (file not found, not a file, unreadable, not an image for /image, upload
\* size or digest mismatch), no response-create request is issued in that
\* turn, the error is reported and main() prompts again; a turn with /help or
\* without parts uploads nothing and issues no request.
C17_FailedAttachmentNoRequest ==
    /\ AttachmentErrorEndsTurn
    /\ SkippedTurnDoesNothing
    /\ (turn_resolutions >= 1 /\ IntegrityFault(last_resolution)) => requests = <<>>

\* C18: KeyboardInterrupt, wherever in the loop round it is raised (at the
\* prompt, during an upload, in the factory, in mid-stream, in the backoff
\* sleep), is followed by on_cancel (a cancel request for the response id, if
\* one is recorded) and the prompt, never by the end of the loop; EOFError is
\* followed by on_cancel and the end of the loop, after which nothing happens.
C18_InterruptContinues ==
    /\ [](pc \in {"prompt", "building", "factory", "streaming", "sleeping"}
            => ENABLED Interrupt)
    /\ [][/\ pc # "exited"
          /\ reported' = CANCELLED =>
               /\ pc' = "prompt"
               /\ last_cancel' # "none"
               /\ cancels' = IF response_id # None THEN Append(cancels, response_id)
                             ELSE cancels
               /\ n_open' = 0
          /\ reported' = BYE =>
               /\ pc = "prompt"
               /\ pc' = "exited"
               /\ last_cancel' # "none"
               /\ cancels' = IF response_id # None THEN Append(cancels, response_id)
                             ELSE cancels]_vars

\* C18 witness: a round interrupted during its upload, and the next round
\* interrupted in its backoff sleep with the response cancelled
C18_Witness ==
    /\ pc = "prompt"
    /\ reported = CANCELLED
    /\ last_cancel = "sent"
    /\ slept # <<>>
    /\ cancels # <<>>
    /\ last_resolution.exc = KeyboardInterrupt
    /\ last_resolution.uploaded

====
